---- MODULE Spec2Model ----
(***************************************************************************)
(* Model of MilestoneUpdaterHelper.db_updater                              *)
(* (src/regolith/helpers/u_milestonehelper.py).                            *)
(*                                                                         *)
(* A python dict is a function whose domain is the set of its keys.  The   *)
(* dicts of one run live in a heap (a sequence of dicts); lists of dicts   *)
(* are sequences of heap addresses, so that two lists naming the same      *)
(* dict see each other's changes, as in python.  None, "" and [] are all   *)
(* falsy in the code and are written "" (strings) or <<>> (lists, dates).  *)
(* A date is <<form, day>>: form "str" for a date given as text, "date"    *)
(* for a datetime.date.                                                    *)
(***************************************************************************)
EXTENDS Integers, Sequences, FiniteSets, TLC

VARIABLES db, db0, rc, heap, milestones, all_milestones, index_list,
          idx_parsed, pos, identifier, calls, out, pc, err

vars == <<db, db0, rc, heap, milestones, all_milestones, index_list,
          idx_parsed, pos, identifier, calls, out, pc, err>>

(* ------------------------------ bounds --------------------------------- *)
MaxMilestones == 2
MaxDate == 2
MaxFlags == 2

(* ----------------------------- constants ------------------------------- *)
TARGET_COLL == "projecta"
ALLOWED_TYPES == [m |-> "meeting", r |-> "release", p |-> "pull request",
                  o |-> "other"]
ALLOWED_STATI == [p |-> "proposed", s |-> "started", f |-> "finished",
                  b |-> "backburner", c |-> "converged", l |-> "cancelled"]
PROJECTUM_ACTIVE_STATI == {"proposed", "started", "converged"}
DefaultAudience == <<"lead", "pi", "group_members">>

(* dt.date.today(): a day later than every stored due date *)
Today == <<"date", 9>>
(* the _id of the one stored projectum *)
PrumId == <<"a", "b">>
Unbound == "<unbound>"

(* ------------------------------ dicts ---------------------------------- *)
EmptyDict == <<>>
Has(d, k) == k \in DOMAIN d
Get(d, k, default) == IF k \in DOMAIN d THEN d[k] ELSE default
Put(d, k, v) == [x \in (DOMAIN d) \cup {k} |-> IF x = k THEN v ELSE d[x]]
Pop(d, k) == [x \in (DOMAIN d) \ {k} |-> d[x]]
Values(d) == {d[k] : k \in DOMAIN d}

(* ------------------------------ dates ---------------------------------- *)
(* date_parser.parse(text).date() *)
ParseDate(s) == <<"date", s[2]>>
(* regolith.dates.get_due_date: the record's due date as a datetime.date *)
CanResolve(thing) == Has(thing, "due_date") /\ thing["due_date"] # <<>>
get_due_date(thing) ==
    IF thing["due_date"][1] = "str" THEN ParseDate(thing["due_date"])
    ELSE thing["due_date"]
Day(d) == d[2]

(* ----------------------------- strings --------------------------------- *)
RECURSIVE IsInfix(_, _)
IsInfix(f, s) ==
    IF Len(f) > Len(s) THEN FALSE
    ELSE IF SubSeq(s, 1, Len(f)) = f THEN TRUE
    ELSE IF s = <<>> THEN FALSE
    ELSE IsInfix(f, Tail(s))
(* regolith.tools.fragment_retrieval(coll, ["_id"], fragment) *)
fragment_retrieval(ids, fragment) == SelectSeq(ids, LAMBDA i : IsInfix(fragment, i))

(* str.replace(" ", "") *)
StripSpaces(s) == SelectSeq(s, LAMBDA ch : ch # " ")
RECURSIVE Split(_, _)
(* str.split(sep) for a one-character separator *)
Split(s, sep) ==
    IF \A i \in 1..Len(s) : s[i] # sep THEN <<s>>
    ELSE LET k == CHOOSE i \in 1..Len(s) :
                      s[i] = sep /\ \A j \in 1..(i - 1) : s[j] # sep
         IN <<SubSeq(s, 1, k - 1)>> \o Split(SubSeq(s, k + 1, Len(s)), sep)
Digits == [c \in {"0", "1", "2", "3", "4", "5", "6", "7", "8", "9"} |->
             CASE c = "0" -> 0 [] c = "1" -> 1 [] c = "2" -> 2 [] c = "3" -> 3
               [] c = "4" -> 4 [] c = "5" -> 5 [] c = "6" -> 6 [] c = "7" -> 7
               [] c = "8" -> 8 [] c = "9" -> 9]
IsInt(s) == s # <<>> /\ \A i \in 1..Len(s) : s[i] \in DOMAIN Digits
RECURSIVE ToInt(_)
(* int(text) for an unsigned decimal *)
ToInt(s) ==
    IF s = <<>> THEN 0
    ELSE 10 * ToInt(SubSeq(s, 1, Len(s) - 1)) + Digits[s[Len(s)]]
Range(a, b) == [i \in 1..(IF b >= a THEN b - a + 1 ELSE 0) |-> a + i - 1]

(* lines 180-187: the indices named by rc.index; "bad" marks a ValueError *)
IndexParts(index) ==
    LET s == StripSpaces(index)
    IN IF \E i \in 1..Len(s) : s[i] = "-" THEN
            LET parts == Split(s, "-") IN <<parts[1], parts[2]>>
       ELSE IF \E i \in 1..Len(s) : s[i] = "," THEN Split(s, ",")
       ELSE <<s>>
ParseOk(index) ==
    LET parts == IndexParts(index)
    IN \A i \in 1..Len(parts) : IsInt(parts[i])
ParseIndex(index) ==
    LET s == StripSpaces(index)
        parts == IndexParts(index)
    IN IF \E i \in 1..Len(s) : s[i] = "-"
       THEN Range(ToInt(parts[1]), ToInt(parts[2]))
       ELSE [i \in 1..Len(parts) |-> ToInt(parts[i])]

(* ------------------------------ storage -------------------------------- *)
(* rc.client.find_one: the stored record with that _id, or none *)
Found_fragment(key) == key # <<>> /\ SubSeq(PrumId, 1, Len(key)) = key
Found(key) == key = PrumId
(* gtx["projecta"]: the stored identifiers *)
StoredIds == <<PrumId>>

(* the dicts of the record as the run holds them: deliverable, kickoff,    *)
(* then the milestones in list order                                       *)
Load(rec) == <<rec.deliverable, rec.kickoff>> \o rec.milestones
DelAddr == 1
KickAddr == 2
MilAddrs(rec) == [i \in 1..Len(rec.milestones) |-> 2 + i]

(* the value of a list of addresses *)
Deref(h, refs) == [i \in 1..Len(refs) |-> h[refs[i]]]
(* target_prum as the run holds it *)
TargetPrum == [deliverable |-> heap[DelAddr], kickoff |-> heap[KickAddr],
               milestones |-> Deref(heap, milestones)]

(* -------------------- lines 132-144: the merged view -------------------- *)
Tagged(rec) ==
    [a \in 1..(2 + Len(rec.milestones)) |->
        Put(Load(rec)[a], "identifier",
            IF a = DelAddr THEN "deliverable"
            ELSE IF a = KickAddr THEN "kickoff" ELSE "milestones")]
AllResolve(rec) == \A a \in 1..(2 + Len(rec.milestones)) : CanResolve(Load(rec)[a])
(* lines 141-142, which stop at the first record that does not resolve *)
Resolved(h) ==
    [a \in 1..Len(h) |->
        IF \A b \in 1..a : CanResolve(h[b])
        THEN Put(h[a], "due_date", get_due_date(h[a])) ELSE h[a]]

RECURSIVE InsertSorted_unstable(_, _, _)
InsertSorted_unstable(h, sorted, a) ==
    IF sorted = <<>> THEN <<a>>
    ELSE IF Day(h[Head(sorted)]["due_date"]) < Day(h[a]["due_date"])
         THEN <<Head(sorted)>> \o InsertSorted_unstable(h, Tail(sorted), a)
         ELSE <<a>> \o sorted
RECURSIVE InsertSorted(_, _, _)
(* place address a after every element whose date is not later *)
InsertSorted(h, sorted, a) ==
    IF sorted = <<>> THEN <<a>>
    ELSE IF Day(h[Head(sorted)]["due_date"]) <= Day(h[a]["due_date"])
         THEN <<Head(sorted)>> \o InsertSorted(h, Tail(sorted), a)
         ELSE <<a>> \o sorted
RECURSIVE SortByDue(_, _)
(* list.sort(key=due_date): stable, ascending *)
SortByDue(h, refs) ==
    IF refs = <<>> THEN <<>>
    ELSE InsertSorted(h, SortByDue(h, SubSeq(refs, 1, Len(refs) - 1)),
                      refs[Len(refs)])
MergedHeap(rec) == Resolved(Tagged(rec))
MergedView(rec) ==
    SortByDue(MergedHeap(rec), <<DelAddr, KickAddr>> \o MilAddrs(rec))
IndexList(view) == [k \in 1..Len(view) |-> k + 1]

(* ------------------------- the stored projectum ------------------------- *)
Dates == {<<"str", d>> : d \in 1..MaxDate}
MilName == <<"m1", "m2", "m3", "m4">>
DeliverableRecs ==
    {[due_date |-> d, status |-> "proposed", objective |-> "deliver"] : d \in Dates}
    \cup {[due_date |-> d, status |-> "finished", objective |-> "deliver",
           notes |-> <<"a", "b">>] : d \in Dates}
KickoffRecs ==
    {[due_date |-> d, name |-> "Kickoff", status |-> "finished",
      type |-> "meeting"] : d \in Dates}
(* a milestone is plain, finished with notes, lacks a type or lacks a due  *)
(* date                                                                    *)
MilestoneRecs(i) ==
    {[due_date |-> d, name |-> MilName[i], objective |-> "obj",
      status |-> "proposed", type |-> "meeting"] : d \in Dates}
    \cup {[due_date |-> d, name |-> MilName[i], objective |-> "obj",
           status |-> "finished", type |-> "release",
           notes |-> <<"a", "b">>] : d \in Dates}
    \cup {[due_date |-> d, name |-> MilName[i], objective |-> "obj",
           status |-> "started"] : d \in Dates}
    \cup {[name |-> MilName[i], objective |-> "obj", status |-> "proposed",
           type |-> "meeting"]}
MilestoneLists ==
    UNION {{ms \in [1..n -> UNION {MilestoneRecs(i) : i \in 1..n}] :
               \A i \in 1..n : ms[i] \in MilestoneRecs(i)} : n \in 0..MaxMilestones}
Projecta ==
    {[deliverable |-> d, kickoff |-> k, milestones |-> ms] :
        d \in DeliverableRecs, k \in KickoffRecs, ms \in MilestoneLists}
(* the projecta edited: the kickoff is due first, and the milestones after *)
(* the first are plain and due last                                        *)
EditProjecta ==
    {p \in Projecta :
        /\ p.kickoff["due_date"] = <<"str", 1>>
        /\ \A i \in 2..Len(p.milestones) :
              /\ Has(p.milestones[i], "due_date")
              /\ p.milestones[i]["due_date"] = <<"str", MaxDate>>
              /\ p.milestones[i]["status"] = "proposed"}

(* ------------------------------ arguments ------------------------------ *)
NoArgs == [projectum_id |-> <<>>, index |-> <<>>, current |-> FALSE,
           verbose |-> FALSE, due_date |-> <<>>, name |-> "", objective |-> "",
           status |-> "", type |-> "", audience |-> <<>>, notes |-> <<>>,
           finish |-> FALSE, date |-> <<>>]
KeyArgs == {PrumId, <<"a">>, <<"z">>}
IndexArgs == {<<"1">>, <<"2">>, <<"3">>, <<"1", ",", "1">>, <<"2", ",", " ", "3">>,
              <<"2", "-", "3">>, <<"3", "-", "5">>, <<"3", "-", "2">>,
              <<"2", ",", "1">>}
StatusArgs == {"", "s", "finished", "x"}
TypeArgs == {"", "r", "other", "x"}
(* listing runs: the edit flags are not read *)
ListArgs ==
    {[NoArgs EXCEPT !.projectum_id = PrumId, !.current = c, !.verbose = v] :
        c \in BOOLEAN, v \in BOOLEAN}
(* runs on an identifier that is not stored *)
LostArgs ==
    {[NoArgs EXCEPT !.projectum_id = k, !.index = i, !.finish = f, !.status = s] :
        k \in KeyArgs \ {PrumId}, i \in {<<>>, <<"1">>, <<"2">>},
        f \in BOOLEAN, s \in {"", "x"}}
AllEditArgs ==
    {[NoArgs EXCEPT !.projectum_id = PrumId, !.index = i, !.due_date = u,
                    !.name = n, !.objective = o, !.status = s, !.type = t,
                    !.audience = a, !.notes = nt, !.finish = f[1], !.date = f[2]] :
        i \in IndexArgs, u \in {<<>>, <<"str", 1>>}, n \in {"", "new"},
        o \in {"", "goal"}, s \in StatusArgs, t \in TypeArgs,
        a \in {<<>>, <<"pi">>}, nt \in {<<>>, <<"c">>},
        f \in {<<FALSE, <<>>>>, <<TRUE, <<>>>>, <<TRUE, <<"str", 3>>>>}}
(* the flags a command line supplies *)
NewFlags(args) ==
    {f \in {"due_date"} : args.due_date # <<>>}
    \cup {f \in {"name"} : args.name # ""}
    \cup {f \in {"objective"} : args.objective # ""}
EditFlags(args) ==
    {f \in {"status"} : args.status # ""}
    \cup {f \in {"type"} : args.type # ""}
    \cup {f \in {"audience"} : args.audience # <<>>}
    \cup {f \in {"notes"} : args.notes # <<>>}
    \cup {f \in {"finish"} : args.finish}
NamesOne(index) ==
    ParseOk(index) /\ \E k \in 1..Len(ParseIndex(index)) : ParseIndex(index)[k] = 1
(* edit runs: at most MaxFlags flags at once; a run naming index 1 gives   *)
(* the three fields of a new milestone (then they are not counted) or all  *)
(* but one of them                                                         *)
EditArgs ==
    {a \in AllEditArgs :
        IF NamesOne(a.index)
        THEN \/ Cardinality(NewFlags(a)) = 3 /\ Cardinality(EditFlags(a)) <= MaxFlags
             \/ Cardinality(NewFlags(a)) = 2 /\ EditFlags(a) = {}
        ELSE Cardinality(NewFlags(a) \cup EditFlags(a)) <= MaxFlags}
Args == ListArgs \cup LostArgs \cup EditArgs

(* ------------------------------- Init ----------------------------------- *)
Started ==
    /\ db0 = db
    /\ rc = NoArgs
    /\ heap = <<>>
    /\ milestones = <<>>
    /\ all_milestones = <<>>
    /\ index_list = <<>>
    /\ idx_parsed = <<>>
    /\ pos = 0
    /\ identifier = Unbound
    /\ calls = <<>>
    /\ out = <<>>
    /\ pc = "start"
    /\ err = ""
Init == db \in EditProjecta /\ Started
InitView == db \in Projecta /\ Started

(* lines 115-118 *)
Now(args) == IF args.date # <<>> THEN ParseDate(args.date) ELSE Today

(* ------------------ lines 119-131: identifier not stored ---------------- *)
NotFound ==
    /\ pc = "start"
    /\ \E args \in Args :
        /\ ~Found(args.projectum_id)
        /\ rc' = args
        /\ LET pra == fragment_retrieval(StoredIds, args.projectum_id)
           IN IF Len(pra) = 0
              THEN pc' = "failed" /\ err' = "RuntimeError" /\ out' = out
              ELSE pc' = "done" /\ err' = err /\ out' = pra
    /\ UNCHANGED <<db, db0, heap, milestones, all_milestones, index_list,
                   idx_parsed, pos, identifier, calls>>

(* ------------------- lines 145-171: selection mode ---------------------- *)
Skipped(args, j) ==
    args.current /\ Get(j, "status", "") \notin PROJECTUM_ACTIVE_STATI
Line(args, i, j) ==
    [i |-> i, name |-> Get(j, "name", ""), due_date |-> j["due_date"],
     status |-> Get(j, "status", ""),
     detail |-> IF args.verbose
                THEN [k \in (DOMAIN j) \cap {"audience", "objective", "type", "notes"}
                        |-> j[k]]
                ELSE EmptyDict]
(* the heap after line 146 *)
Named(h) == [h EXCEPT ![DelAddr] = Put(h[DelAddr], "name", "deliverable")]
(* the lines printed by the loop of lines 149-170 *)
Printed(args, h, view) ==
    LET shown == SelectSeq([k \in 1..Len(view) |-> k],
                           LAMBDA k : ~Skipped(args, Named(h)[view[k]]))
    IN [n \in 1..Len(shown) |->
          Line(args, IndexList(view)[shown[n]], Named(h)[view[shown[n]]])]
(* the dict at address a after the loop of lines 149-170 *)
Untagged(args, j) ==
    IF Skipped(args, j) THEN Pop(j, "identifier")
    ELSE Pop(IF Get(j, "identifier", "") = "deliverable" THEN Pop(j, "name") ELSE j,
             "identifier")
Listed(args, h) == [a \in 1..Len(h) |-> Untagged(args, Named(h)[a])]

Listing ==
    /\ pc = "start"
    /\ \E args \in Args :
        /\ Found(args.projectum_id)
        /\ args.index = <<>>
        /\ rc' = args
        /\ IF ~AllResolve(db)
           THEN /\ pc' = "failed" /\ err' = "RuntimeError"
                /\ heap' = MergedHeap(db)
                /\ all_milestones' = <<DelAddr, KickAddr>> \o MilAddrs(db)
                /\ UNCHANGED <<index_list, out>>
           ELSE /\ heap' = Listed(args, MergedHeap(db))
                /\ all_milestones' = MergedView(db)
                /\ index_list' = IndexList(MergedView(db))
                /\ out' = Printed(args, MergedHeap(db), MergedView(db))
                /\ pc' = "done" /\ err' = err
        /\ milestones' = MilAddrs(db)
    /\ UNCHANGED <<db, db0, idx_parsed, pos, identifier, calls>>

(* --------------- lines 172-187: validation and index parsing ------------ *)
Expand(table, v) == IF v \in DOMAIN table THEN table[v] ELSE v
ValidType_unchecked(t) == TRUE
ValidType(t) == t = "" \/ t \in (DOMAIN ALLOWED_TYPES) \cup Values(ALLOWED_TYPES)
ValidStatus(s) == s = "" \/ s \in (DOMAIN ALLOWED_STATI) \cup Values(ALLOWED_STATI)

EditBegin ==
    /\ pc = "start"
    /\ \E args \in Args :
        /\ Found(args.projectum_id)
        /\ args.index # <<>>
        /\ milestones' = MilAddrs(db)
        /\ IF ~AllResolve(db)
           THEN /\ pc' = "failed" /\ err' = "RuntimeError"
                /\ heap' = MergedHeap(db) /\ rc' = args
                /\ all_milestones' = <<DelAddr, KickAddr>> \o MilAddrs(db)
                /\ UNCHANGED <<index_list, idx_parsed, pos>>
           ELSE /\ heap' = MergedHeap(db)
                /\ all_milestones' = MergedView(db)
                /\ index_list' = IndexList(MergedView(db))
                /\ IF ~ValidType(args.type) \/ ~ValidStatus(args.status)
                   THEN /\ pc' = "failed" /\ err' = "KeyError" /\ rc' = args
                        /\ UNCHANGED <<idx_parsed, pos>>
                   ELSE /\ rc' = [args EXCEPT !.index = StripSpaces(args.index)]
                        /\ IF ~ParseOk(args.index)
                           THEN /\ pc' = "failed" /\ err' = "ValueError"
                                /\ UNCHANGED <<idx_parsed, pos>>
                           ELSE /\ idx_parsed' = ParseIndex(args.index)
                                /\ pos' = 1
                                /\ pc' = "loop" /\ err' = err
    /\ UNCHANGED <<db, db0, identifier, calls, out>>

(* ----------------- lines 191-217: building a new milestone -------------- *)
NewFieldsGiven(args) ==
    args.due_date # <<>> /\ args.name # "" /\ args.objective # ""
NewDefaults(args, mil) ==
    LET m1 == IF args.type # ""
              THEN Put(mil, "type", Expand(ALLOWED_TYPES, args.type))
              ELSE Put(mil, "status", "proposed")
    IN IF args.status # ""
       THEN Put(m1, "status", Expand(ALLOWED_STATI, args.status))
       ELSE Put(m1, "type", "meeting")
NewMil(args) ==
    LET m0 == Put(EmptyDict, "due_date", args.due_date)
        m1 == Put(m0, "due_date", get_due_date(m0))
        m2 == Put(Put(m1, "objective", args.objective), "name", args.name)
        m3 == Put(m2, "audience",
                  IF args.audience # <<>> THEN args.audience ELSE DefaultAudience)
        m4 == NewDefaults(args, m3)
    IN IF args.notes # <<>> THEN Put(m4, "notes", args.notes) ELSE m4

(* ---------------- lines 221-257: editing an existing entry -------------- *)
(* rc.status after line 235 *)
StatusArg(args) == IF args.finish THEN "f" ELSE args.status
EditType(args, doc) ==
    IF args.type # "" THEN Put(doc, "type", Expand(ALLOWED_TYPES, args.type)) ELSE doc
EditFinish(args, doc) ==
    IF args.finish THEN Put(doc, "end_date", Now(args)) ELSE doc
EditStatus(args, doc) ==
    IF StatusArg(args) # ""
    THEN Put(doc, "status", Expand(ALLOWED_STATI, StatusArg(args))) ELSE doc
EditAudience(args, doc) ==
    IF args.audience # <<>> THEN Put(doc, "audience", args.audience) ELSE doc
EditDue(args, doc) ==
    LET d == IF args.due_date # <<>> THEN Put(doc, "due_date", args.due_date) ELSE doc
    IN Put(d, "due_date", get_due_date(d))
EditNotes(args, doc) ==
    IF args.notes # <<>>
    THEN Put(doc, "notes", Get(doc, "notes", <<>>) \o args.notes) ELSE doc
(* lines 259-262 *)
EditNames(args, doc) ==
    LET d == IF args.name # "" THEN Put(doc, "name", args.name) ELSE doc
    IN IF args.objective # "" THEN Put(d, "objective", args.objective) ELSE d
(* lines 263-267: the milestones of the view other than the one at idx,    *)
(* then the edited one                                                     *)
Splice(h, view, idx, a) ==
    Append(SelectSeq(view,
              LAMBDA b : h[b]["identifier"] = "milestones"
                         /\ (CHOOSE k \in 1..Len(view) : view[k] = b) + 1 # idx),
           a)

NoDoc == [key |-> "", list |-> FALSE, refs |-> <<>>]
(* the body of the loop up to line 270 for one idx: the error raised, if   *)
(* any, and the locals and heap at that point                              *)
Body(args, h, mils, ident, idx) ==
    LET same == [err |-> "", heap |-> h, milestones |-> mils, identifier |-> ident,
                 status |-> args.status, pdoc |-> NoDoc, msg |-> <<>>]
    IN IF idx = 1 THEN
          IF ~NewFieldsGiven(args) THEN [same EXCEPT !.err = "RuntimeError"]
          ELSE [same EXCEPT !.heap = Append(h, NewMil(args)),
                            !.milestones = Append(mils, Len(h) + 1),
                            !.pdoc = [key |-> "milestones", list |-> TRUE,
                                      refs |-> Append(mils, Len(h) + 1)]]
       ELSE IF idx > 1 THEN
          IF idx - 1 > Len(all_milestones) THEN [same EXCEPT !.err = "IndexError"]
          ELSE
            LET a == all_milestones[idx - 1]
                doc == h[a]
            IN IF ~Has(doc, "identifier") THEN [same EXCEPT !.err = "KeyError"]
               ELSE
                 LET id == doc["identifier"]
                     d1 == EditFinish(args, EditType(args, doc))
                     d2 == EditNotes(args, EditDue(args,
                              EditAudience(args, EditStatus(args, d1))))
                     d3 == IF id = "milestones" THEN EditNames(args, d2) ELSE d2
                     h3 == [h EXCEPT ![a] = d3]
                     fin == IF args.finish
                            THEN <<<<"finished",
                                     IF id = "deliverable" THEN "deliverable"
                                     ELSE doc["name"]>>>>
                            ELSE <<>>
                 IN IF ~Has(doc, "type") /\ args.type = "" /\ id = "milestones"
                    THEN [same EXCEPT !.err = "RuntimeError", !.identifier = id]
                    ELSE IF args.finish /\ id # "deliverable" /\ ~Has(doc, "name")
                    THEN [same EXCEPT !.err = "KeyError", !.identifier = id,
                                      !.status = "f",
                                      !.heap = [h EXCEPT ![a] = d1]]
                    ELSE IF id = "milestones"
                            /\ \E k \in 1..Len(all_milestones) :
                                  ~Has(h3[all_milestones[k]], "identifier")
                    THEN [same EXCEPT !.err = "KeyError", !.identifier = id,
                                      !.status = StatusArg(args), !.heap = h3,
                                      !.msg = fin]
                    ELSE [same EXCEPT
                            !.identifier = id, !.status = StatusArg(args),
                            !.heap = h3, !.msg = fin,
                            !.pdoc = IF id = "milestones"
                                     THEN [key |-> "milestones", list |-> TRUE,
                                           refs |-> Splice(h3, all_milestones, idx, a)]
                                     ELSE [key |-> id, list |-> FALSE,
                                           refs |-> <<a>>]]
       ELSE same

(* line 271: pdoc[identifier].pop('identifier', None) *)
PopError(pdoc, ident) ==
    IF ident = Unbound THEN "UnboundLocalError"
    ELSE IF pdoc.key # ident THEN "KeyError"
    ELSE IF pdoc.list THEN "TypeError"
    ELSE ""
(* rc.client.update_one: the named field of the stored record is replaced  *)
(* by the value the partial document holds at the time of the call         *)
DocValue(h, pdoc) == IF pdoc.list THEN Deref(h, pdoc.refs) ELSE h[pdoc.refs[1]]
UpdateOne(store, key, value) == Put(store, key, value)

(* line 272: the update_one calls made so far, in order *)
Called_skipped(cs, key, value) == cs
Called(cs, key, value) == Append(cs, [key |-> key, value |-> value])

(* ------------------ lines 188-272: one pass of the loop ----------------- *)
ProcessIndex ==
    /\ pc = "loop"
    /\ pos <= Len(idx_parsed)
    /\ LET r == Body(rc, heap, milestones, identifier, idx_parsed[pos])
           perr == PopError(r.pdoc, r.identifier)
           h4 == IF r.err = "" /\ perr = ""
                 THEN [r.heap EXCEPT ![r.pdoc.refs[1]] = Pop(@, "identifier")]
                 ELSE r.heap
       IN /\ heap' = h4
          /\ milestones' = r.milestones
          /\ identifier' = r.identifier
          /\ rc' = [rc EXCEPT !.status = r.status]
          /\ out' = out \o r.msg
          /\ IF r.err # "" THEN pc' = "failed" /\ err' = r.err
                                /\ UNCHANGED <<db, calls, pos>>
             ELSE IF perr # "" THEN pc' = "failed" /\ err' = perr
                                    /\ UNCHANGED <<db, calls, pos>>
             ELSE /\ calls' = Called(calls, r.pdoc.key, DocValue(h4, r.pdoc))
                  /\ db' = UpdateOne(db, r.pdoc.key, DocValue(h4, r.pdoc))
                  /\ pos' = pos + 1
                  /\ UNCHANGED <<pc, err>>
    /\ UNCHANGED <<db0, all_milestones, index_list, idx_parsed>>

(* ---------------------- lines 273-277: after the loop ------------------- *)
Finish ==
    /\ pc = "loop"
    /\ pos > Len(idx_parsed)
    /\ heap' = [a \in 1..Len(heap) |->
                   IF \E k \in 1..Len(all_milestones) : all_milestones[k] = a
                   THEN Pop(heap[a], "identifier") ELSE heap[a]]
    /\ out' = Append(out, <<"updated", rc.projectum_id>>)
    /\ pc' = "done"
    /\ UNCHANGED <<db, db0, rc, milestones, all_milestones, index_list,
                   idx_parsed, pos, identifier, calls, err>>

Next == NotFound \/ Listing \/ EditBegin \/ ProcessIndex \/ Finish

Spec == Init /\ [][Next]_vars

(* the runs that only read: every stored projectum, listed or not found *)
NextView == NotFound \/ Listing
SpecView == InitView /\ [][NextView]_vars

(* ============================== properties ============================== *)

(* C1: once db_updater has built the merged view of a stored projectum     *)
(* with n milestones, the view names each of the n+2 source records        *)
(* exactly once, is sorted non-decreasing by resolved due date, keeps the  *)
(* order deliverable, kickoff, milestones in list order among equal due    *)
(* dates, and its k-th entry has display index k+1, never index 1.         *)
C1_MergedViewSorted ==
    (pc # "start" /\ rc.projectum_id = PrumId /\ AllResolve(db0)) =>
        LET n == Len(db0.milestones)
            due(a) == Day(get_due_date(Load(db0)[a]))
        IN /\ Len(all_milestones) = n + 2
           /\ \A a \in 1..(n + 2) :
                 Cardinality({k \in 1..(n + 2) : all_milestones[k] = a}) = 1
           /\ \A k \in 1..(n + 1) :
                 due(all_milestones[k]) <= due(all_milestones[k + 1])
           /\ \A k \in 1..(n + 2) : \A l \in (k + 1)..(n + 2) :
                 due(all_milestones[k]) = due(all_milestones[l])
                    => all_milestones[k] < all_milestones[l]
           /\ Len(index_list) = n + 2
           /\ \A k \in 1..(n + 2) : index_list[k] = k + 1 /\ index_list[k] # 1
(* a view of four entries that is not in input order and holds a tie *)
C1_Witness ==
    /\ pc = "done" /\ rc.projectum_id = PrumId
    /\ Len(all_milestones) = 4
    /\ all_milestones[1] = KickAddr
    /\ all_milestones[4] = DelAddr
    /\ \E k \in 1..3 : Day(get_due_date(Load(db0)[all_milestones[k]]))
                        = Day(get_due_date(Load(db0)[all_milestones[k + 1]]))

(* C2: a run with the finish flag on one existing entry (an index > 1 of   *)
(* the merged view, of any origin) ends with that entry stored with status *)
(* 'finished' and end_date the test date (today when none is given), and a *)
(* current-only listing of the stored record does not show the entry.      *)
C2_FinishPersisted ==
    (/\ pc \in {"done", "failed"} /\ pos >= 1 /\ rc.finish
     /\ Len(idx_parsed) = 1
     /\ idx_parsed[1] \in 2..(Len(all_milestones) + 1)
     /\ LET a == all_milestones[idx_parsed[1] - 1]
        IN a <= KickAddr \/ Has(Load(db0)[a], "type") \/ rc.type # "") =>
        LET a == all_milestones[idx_parsed[1] - 1]
            name == IF a = DelAddr THEN "deliverable"
                    ELSE IF a > KickAddr /\ rc.name # "" THEN rc.name
                    ELSE Load(db0)[a]["name"]
            stored == IF a = DelAddr THEN {db.deliverable}
                      ELSE IF a = KickAddr THEN {db.kickoff}
                      ELSE {db.milestones[i] : i \in
                              {i \in 1..Len(db.milestones) :
                                 Get(db.milestones[i], "name", "") = name}}
            listed == Printed([NoArgs EXCEPT !.current = TRUE],
                              MergedHeap(db), MergedView(db))
        IN /\ pc = "done"
           /\ stored # {}
           /\ \A e \in stored : /\ Get(e, "status", "") = "finished"
                                /\ Get(e, "end_date", <<>>) = Now(rc)
           /\ \A k \in 1..Len(listed) : listed[k].name # name

(* C3: a run naming only index 1, with due date, name and objective given, *)
(* ends with one new entry appended to the stored milestones list per      *)
(* occurrence of index 1, the earlier milestones still stored before them. *)
C3_NewMilestonesAppended ==
    (/\ pc \in {"done", "failed"} /\ pos >= 1 /\ NewFieldsGiven(rc)
     /\ Len(idx_parsed) >= 1
     /\ \A k \in 1..Len(idx_parsed) : idx_parsed[k] = 1) =>
        /\ pc = "done"
        /\ Len(db.milestones) = Len(db0.milestones) + Len(idx_parsed)
        /\ \A i \in 1..Len(db0.milestones) :
              Get(db.milestones[i], "name", "") = db0.milestones[i]["name"]
        /\ \A i \in (Len(db0.milestones) + 1)..Len(db.milestones) :
              Get(db.milestones[i], "name", "") = rc.name

(* C4: a run on a range or list of distinct indices, each > 1 and within   *)
(* the merged view, ends with the supplied field updates stored on each    *)
(* entry that stood at a named position of the view, and with the          *)
(* deliverable and kickoff not named stored as before.                     *)
C4_BatchApplied ==
    (/\ pc \in {"done", "failed"} /\ pos >= 1
     /\ Len(idx_parsed) >= 2
     /\ \A k \in 1..Len(idx_parsed) :
           /\ idx_parsed[k] \in 2..(Len(all_milestones) + 1)
           /\ \A l \in 1..Len(idx_parsed) : idx_parsed[k] = idx_parsed[l] => k = l
           /\ LET a == all_milestones[idx_parsed[k] - 1]
              IN a <= KickAddr \/ Has(Load(db0)[a], "type") \/ rc.type # "") =>
        LET named == {all_milestones[idx_parsed[k] - 1] : k \in 1..Len(idx_parsed)}
            name(a) == IF rc.name # "" THEN rc.name ELSE Load(db0)[a]["name"]
            stored(a) == IF a = DelAddr THEN {db.deliverable}
                         ELSE IF a = KickAddr THEN {db.kickoff}
                         ELSE {db.milestones[i] : i \in
                                 {i \in 1..Len(db.milestones) :
                                    Get(db.milestones[i], "name", "") = name(a)}}
            updated(e, a) ==
                /\ rc.type # "" => Get(e, "type", "") = Expand(ALLOWED_TYPES, rc.type)
                /\ rc.status # "" =>
                      Get(e, "status", "") = Expand(ALLOWED_STATI, rc.status)
                /\ rc.audience # <<>> => Get(e, "audience", <<>>) = rc.audience
                /\ rc.due_date # <<>> => Day(e["due_date"]) = Day(rc.due_date)
                /\ rc.notes # <<>> =>
                      Get(e, "notes", <<>>) = Get(Load(db0)[a], "notes", <<>>) \o rc.notes
                /\ rc.finish => Get(e, "end_date", <<>>) = Now(rc)
        IN /\ pc = "done"
           /\ \A a \in named : stored(a) # {} /\ \A e \in stored(a) : updated(e, a)
           /\ DelAddr \notin named => db.deliverable = db0.deliverable
           /\ KickAddr \notin named => db.kickoff = db0.kickoff

(* C5 as stated: in edit mode no update_one call is made while an index of *)
(* the batch is still to be processed, and a batch that raised an error    *)
(* has made no update_one call.                                            *)
C5_NoWriteBeforeBatchEnd ==
    /\ (pc = "loop" /\ pos <= Len(idx_parsed)) => calls = <<>>
    /\ pc = "failed" => calls = <<>>
(* C5 (amended): in edit mode update_one is called inside the loop over    *)
(* the batch, once for each index whose edits were applied without error   *)
(* and before the next index is processed: when the k-th index of the      *)
(* batch is up (or has raised an error) exactly k-1 calls have been made,  *)
(* the i-th of them writing the slot of the entry named by the i-th index; *)
(* no call is made before the type, the status and the index argument have *)
(* been accepted.                                                          *)
C5_OneWritePerIndex ==
    /\ pos = 0 => calls = <<>>
    /\ pos >= 1 =>
          /\ Len(calls) = pos - 1
          /\ pc = "done" => pos = Len(idx_parsed) + 1
          /\ \A i \in 1..Len(calls) :
                /\ idx_parsed[i] \in 2..(Len(all_milestones) + 1)
                /\ calls[i].key =
                      MergedHeap(db0)[all_milestones[idx_parsed[i] - 1]]["identifier"]
(* a batch that raised an error on its second index after writing the first *)
C5_Witness ==
    /\ pc = "failed" /\ pos = 2 /\ Len(idx_parsed) = 2 /\ Len(calls) = 1

(* C6: a listing run (no index) makes no update_one call and leaves the    *)
(* record it read with the same fields and values: nothing added to the    *)
(* deliverable, the kickoff or a milestone, due dates naming the same day. *)
C6_ListingReadOnly ==
    (pc = "done" /\ rc.projectum_id = PrumId /\ rc.index = <<>>) =>
        LET same(x, y) ==
                /\ DOMAIN x = DOMAIN y
                /\ \A k \in DOMAIN x :
                      IF k = "due_date" THEN Day(x[k]) = Day(y[k]) ELSE x[k] = y[k]
        IN /\ calls = <<>>
           /\ db = db0
           /\ same(TargetPrum.deliverable, db.deliverable)
           /\ same(TargetPrum.kickoff, db.kickoff)
           /\ Len(TargetPrum.milestones) = Len(db.milestones)
           /\ \A i \in 1..Len(db.milestones) :
                 same(TargetPrum.milestones[i], db.milestones[i])

(* C7: the milestone built for index 1 (due date, name and objective       *)
(* given) has the supplied status, type and audience, a short code         *)
(* expanded, and status 'proposed', type 'meeting', audience               *)
(* [lead, pi, group_members] for those not supplied.                       *)
C7_NewMilestoneDefaults ==
    (/\ pc \in {"loop", "done", "failed"} /\ pos >= 1
     /\ Len(heap) > Len(all_milestones)) =>
        LET mil == heap[Len(heap)]
        IN /\ Get(mil, "status", "") =
                 (IF rc.status = "" THEN "proposed"
                  ELSE Expand(ALLOWED_STATI, rc.status))
           /\ Get(mil, "type", "") =
                 (IF rc.type = "" THEN "meeting" ELSE Expand(ALLOWED_TYPES, rc.type))
           /\ Get(mil, "audience", <<>>) =
                 (IF rc.audience = <<>> THEN DefaultAudience ELSE rc.audience)

(* C8: an edit run given a type or a status that is neither a short code   *)
(* nor a full name of the allowed sets fails before any index is processed *)
(* and before any update_one call; and an entry written by an edit run     *)
(* that was given a type (a status, or the finish flag) is stored with a   *)
(* full name of the allowed types (stati).                                 *)
C8_TypeStatusValidated ==
    (pc # "start" /\ rc.projectum_id = PrumId /\ rc.index # <<>>) =>
        /\ (\/ (rc.type # "" /\ rc.type \notin
                   {"m", "meeting", "r", "release", "p", "pull request", "o", "other"})
            \/ (rc.status # "" /\ rc.status \notin
                   {"p", "proposed", "s", "started", "f", "finished", "b",
                    "backburner", "c", "converged", "l", "cancelled"}))
           => /\ pc = "failed"
              /\ err = (IF AllResolve(db0) THEN "KeyError" ELSE "RuntimeError")
              /\ pos = 0 /\ idx_parsed = <<>> /\ calls = <<>>
              /\ db = db0 /\ heap = MergedHeap(db0)
        /\ \A i \in 1..Len(calls) :
              LET e == IF calls[i].key = "milestones"
                       THEN calls[i].value[Len(calls[i].value)]
                       ELSE calls[i].value
              IN /\ rc.type # "" =>
                    Get(e, "type", "") \in {"meeting", "release", "pull request", "other"}
                 /\ rc.status # "" =>
                    Get(e, "status", "") \in {"proposed", "started", "finished",
                                              "backburner", "converged", "cancelled"}
(* an edit run refused for its type *)
C8_Witness ==
    /\ pc = "failed" /\ err = "KeyError" /\ rc.projectum_id = PrumId
    /\ rc.type = "x" /\ rc.index # <<>> /\ calls = <<>>

(* C9: a run whose projectum identifier equals no stored identifier makes  *)
(* no update_one call and changes no record; it ends normally with the     *)
(* candidate identifiers listed when the fragment lookup finds some, and   *)
(* with a fatal error when it finds none.                                  *)
C9_UnknownIdNoMutation ==
    (pc # "start" /\ rc.projectum_id # PrumId) =>
        /\ calls = <<>> /\ db = db0 /\ heap = <<>>
        /\ IF \E k \in 1..Len(StoredIds) : IsInfix(rc.projectum_id, StoredIds[k])
           THEN pc = "done" /\ err = "" /\ out # <<>>
                /\ \A k \in 1..Len(out) : \E l \in 1..Len(StoredIds) : out[k] = StoredIds[l]
           ELSE pc = "failed" /\ err = "RuntimeError" /\ out = <<>>
(* an edit asked for a fragment of the stored identifier *)
C9_Witness ==
    /\ pc = "done" /\ rc.projectum_id = <<"a">> /\ rc.index = <<"2">>
    /\ out = <<PrumId>>

(* C10: a run with notes supplied on one or several distinct existing      *)
(* entries (indices > 1 within the view) ends with each named entry stored *)
(* with its earlier notes followed by the supplied notes.                  *)
C10_NotesAppended ==
    (/\ pc \in {"done", "failed"} /\ pos >= 1 /\ rc.notes # <<>>
     /\ Len(idx_parsed) >= 1
     /\ \A k \in 1..Len(idx_parsed) :
           /\ idx_parsed[k] \in 2..(Len(all_milestones) + 1)
           /\ \A l \in 1..Len(idx_parsed) : idx_parsed[k] = idx_parsed[l] => k = l
           /\ LET a == all_milestones[idx_parsed[k] - 1]
              IN a <= KickAddr \/ Has(Load(db0)[a], "type") \/ rc.type # "") =>
        \A k \in 1..Len(idx_parsed) :
           LET a == all_milestones[idx_parsed[k] - 1]
               old == Get(Load(db0)[a], "notes", <<>>)
               name == IF rc.name # "" THEN rc.name ELSE Load(db0)[a]["name"]
               stored == IF a = DelAddr THEN {db.deliverable}
                         ELSE IF a = KickAddr THEN {db.kickoff}
                         ELSE {db.milestones[i] : i \in
                                 {i \in 1..Len(db.milestones) :
                                    Get(db.milestones[i], "name", "") = name}}
           IN stored # {} /\ \A e \in stored : Get(e, "notes", <<>>) = old \o rc.notes

(* C11: a run editing one existing entry (a single index k > 1 within the  *)
(* view) makes exactly one update_one call, on the field of the entry's    *)
(* origin: for a milestone the stored list keeps its length, holds every   *)
(* other milestone as it was stored and the edited entry last, no stored   *)
(* entry carrying an 'identifier'; for the deliverable or the kickoff only *)
(* that slot is overwritten and the milestones list is stored as before.   *)
C11_SingleEditWriteBack ==
    (/\ pc \in {"done", "failed"} /\ pos >= 1
     /\ Len(idx_parsed) = 1
     /\ idx_parsed[1] \in 2..(Len(all_milestones) + 1)
     /\ LET a == all_milestones[idx_parsed[1] - 1]
        IN a <= KickAddr \/ Has(Load(db0)[a], "type") \/ rc.type # "") =>
        LET a == all_milestones[idx_parsed[1] - 1]
            n == Len(db0.milestones)
            same(x, y) ==
                /\ DOMAIN x = DOMAIN y
                /\ \A k \in DOMAIN x :
                      IF k = "due_date" THEN Day(x[k]) = Day(y[k]) ELSE x[k] = y[k]
            others == SelectSeq([i \in 1..n |-> i], LAMBDA i : i + KickAddr # a)
        IN /\ pc = "done"
           /\ Len(calls) = 1
           /\ calls[1].key = MergedHeap(db0)[a]["identifier"]
           /\ ~Has(db.deliverable, "identifier")
           /\ ~Has(db.kickoff, "identifier")
           /\ \A i \in 1..Len(db.milestones) : ~Has(db.milestones[i], "identifier")
           /\ IF a > KickAddr
              THEN /\ db.deliverable = db0.deliverable
                   /\ db.kickoff = db0.kickoff
                   /\ Len(db.milestones) = n
                   /\ \A j \in 1..Len(others) :
                         \E i \in 1..(n - 1) :
                            same(db.milestones[i], db0.milestones[others[j]])
                   /\ db.milestones[n] = Pop(heap[a], "identifier")
              ELSE /\ db.milestones = db0.milestones
                   /\ a = DelAddr => db.kickoff = db0.kickoff
                                     /\ db.deliverable = Pop(heap[a], "identifier")
                   /\ a = KickAddr => db.deliverable = db0.deliverable
                                      /\ db.kickoff = Pop(heap[a], "identifier")

====
